---- MODULE Spec2Model ----
(***************************************************************************)
(* A model of md2conf's synchronization engine (md2conf/application.py):   *)
(* the recursive directory indexer, the identity resolver, the local       *)
(* state writer and the page synchronizer, run against a local tree of     *)
(* Markdown files and a remote wiki.                                       *)
(*                                                                         *)
(* Texts are sequences of characters. A character is a one-element string; *)
(* the words a marker or a property is made of ("<!-- confluence-page-id:",*)
(* a page id, "title:") stand for the run of characters they spell and are *)
(* one character long for the purpose of indexing.                         *)
(***************************************************************************)
EXTENDS Integers, Sequences, FiniteSets, TLC

VARIABLES
    tree,           \* the local tree: the set of paths that exist (files and directories)
    excluded,       \* the paths the matcher excludes (.mdignore rules, per directory)
    root_page_id,   \* options.root_page_id (None when not configured)
    fs,             \* contents of the local files: path -> text
    pages,          \* the remote wiki: the set of pages
    next_id,        \* the remote wiki's next fresh page id
    space_key,      \* api.space_key: the session's current space
    calls,          \* the remote calls issued so far, in order
    resolved,       \* the invocations of _get_or_create_page so far, in order
    page_metadata,  \* the Identity Map: sequence of <<path, metadata>> in insertion order
    stack,          \* the activation records of _index_directory, innermost last
    todo,           \* the keys the synchronization loop still has to visit
    targets,        \* the paths given to synchronize, one per run
    original,       \* the local files as they were before the first run
    pc,             \* where the run is: "idle", "index", "sync", "done", "failed"
    error,          \* the exception that ended the run (None when none)
    run,            \* number of runs started
    faults          \* number of remote failures injected so far

env == <<tree, excluded, root_page_id, original>>
remote == <<pages, next_id>>
vars == <<tree, excluded, root_page_id, fs, pages, next_id, space_key, calls,
          resolved, page_metadata, stack, todo, targets, original, pc, error, run,
          faults>>

-----------------------------------------------------------------------------
(* Bounds of the model. *)

\* number of whole runs of synchronize in one behaviour
MaxRuns == 2
\* number of remote calls that may fail in one behaviour
MaxFaults == 1

-----------------------------------------------------------------------------
(* Values. *)

None == "None"

\* ConfluenceQualifiedID(page_id, space_key); NoneId stands for Python's None.
QualifiedID(page_id, key) == [page_id |-> page_id, space_key |-> key]
NoneId == QualifiedID(None, None)

\* Truthiness of an Optional[str].
Truthy(s) == s # None /\ s # ""

\* a or b, on Optional[ConfluenceQualifiedID] (an instance is always truthy).
OrElse(a, b) == IF a # NoneId THEN a ELSE b

NL == "\n"
Dashes == <<"-", "-", "-">>

Min(S) == CHOOSE x \in S : \A y \in S : x <= y

-----------------------------------------------------------------------------
(* Python's str operations, on 0-based indices. *)

\* s.startswith(p)
StartsWith(s, p) == Len(s) >= Len(p) /\ SubSeq(s, 1, Len(p)) = p

\* s[i:i+len(sub)] == sub
MatchAt(s, sub, i) ==
    i >= 0 /\ i + Len(sub) <= Len(s) /\ SubSeq(s, i + 1, i + Len(sub)) = sub

\* s.find(sub, start)
Find(s, sub, start) ==
    LET hits == {i \in start..Len(s) : MatchAt(s, sub, i)}
    IN  IF hits = {} THEN -1 ELSE Min(hits)

\* s[:j] and s[i:]
SliceTo(s, j) == SubSeq(s, 1, j)
SliceFrom(s, i) == SubSeq(s, i + 1, Len(s))

\* sep.join(list)
RECURSIVE Join(_, _)
Join(sep, list) ==
    IF list = <<>> THEN <<>>
    ELSE IF Len(list) = 1 THEN list[1]
    ELSE list[1] \o <<sep>> \o Join(sep, Tail(list))

-----------------------------------------------------------------------------
(* pathlib.Path: a path is the sequence of its components. *)

\* Path(local_dir) / name
Child(local_dir, name) == Append(local_dir, name)
\* path.parent
ParentOf(path) == SubSeq(path, 1, Len(path) - 1)
\* path.name
NameOf(path) == path[Len(path)]
\* path.stem: the name without its last suffix
Stem(name) ==
    CASE name = "index.md"  -> "index"
      [] name = "README.md" -> "README"
      [] name = "a.md"      -> "a"
      [] name = "x.md"      -> "x"
      [] OTHER              -> name

-----------------------------------------------------------------------------
(* The local file format: front-matter, identity markers, body. *)

\* f"<!-- confluence-page-id: {page_id} -->"
PageIdMarker(page_id) == <<"<!-- confluence-page-id:", page_id, "-->">>
\* f"<!-- confluence-space-key: {space_key} -->"
SpaceKeyMarker(key) == <<"<!-- confluence-space-key:", key, "-->">>

\* Removes s[i:i+n] from s.
Cut(s, i, n) == SliceTo(s, i) \o SliceFrom(s, i + n)

\* The first place in text where a marker opened by `open` stands, or -1.
MarkerAt(text, open) ==
    LET hits == {i \in 0..(Len(text) - 3) :
                    text[i + 1] = open /\ text[i + 3] = "-->"}
    IN  IF hits = {} THEN -1 ELSE Min(hits)

\* converter.extract_qualified_id: the qualified identity a text carries in its
\* marker comments (NoneId when it has no page-id marker) and the text without them.
ExtractQualifiedId(text) ==
    LET i == MarkerAt(text, "<!-- confluence-page-id:")
    IN  IF i = -1 THEN [id |-> NoneId, text |-> text]
        ELSE LET rest == Cut(text, i, 3)
                 j    == MarkerAt(rest, "<!-- confluence-space-key:")
             IN  IF j = -1
                 THEN [id |-> QualifiedID(text[i + 2], None), text |-> rest]
                 ELSE [id |-> QualifiedID(text[i + 2], rest[j + 2]),
                       text |-> Cut(rest, j, 3)]

\* The place of the closing delimiter line of a front-matter block that opens
\* text, or -1: a line of three dashes that starts after the opening line.
ClosingDelimiter(text) ==
    LET hits == {p \in 4..(Len(text) - 3) :
                    /\ text[p] = NL
                    /\ MatchAt(text, Dashes, p)
                    /\ (p + 3 = Len(text) \/ text[p + 4] = NL)}
    IN  IF hits = {} THEN -1 ELSE Min(hits)

\* converter.extract_frontmatter: the property block of a front-matter block
\* that opens text (found is FALSE when there is none: Python's None), and the
\* text that follows the block.
ExtractFrontmatter(text) ==
    IF /\ StartsWith(text, Dashes)
       /\ (Len(text) = 3 \/ text[4] = NL)
       /\ ClosingDelimiter(text) # -1
    THEN LET p == ClosingDelimiter(text)
         IN  [found |-> TRUE, frontmatter |-> SubSeq(text, 4, p),
              text |-> SliceFrom(text, p + 3)]
    ELSE [found |-> FALSE, frontmatter |-> <<>>, text |-> text]

\* converter.read_qualified_id: the qualified identity embedded in a file.
ReadQualifiedId(path) == ExtractQualifiedId(fs[path]).id

\* yaml.safe_load of a property block: a mapping (with the value of its title
\* key, None when it has none or it is no string), another value, or a YAMLError.
SafeLoad(frontmatter) ==
    LET words == SelectSeq(frontmatter, LAMBDA c : c # NL)
    IN  IF words = <<>> THEN [kind |-> "null", title |-> None]
        ELSE IF "{" \in {words[k] : k \in 1..Len(words)}
             THEN [kind |-> "YAMLError", title |-> None]
        ELSE IF words[1] = "title:"
             THEN [kind |-> "dict",
                   title |-> IF Len(words) = 2 THEN words[2] ELSE None]
        ELSE IF words[1] = "author:" THEN [kind |-> "dict", title |-> None]
        ELSE [kind |-> "str", title |-> None]

\* converter.ConfluenceDocument: the images a text references by path and the
\* images it carries inline.
Images(text) == SelectSeq(text, LAMBDA c : c = "![fig.png]")
EmbeddedImages(text) == SelectSeq(text, LAMBDA c : c = "![data:png]")

\* converter.attachment_name: the normalized attachment name of an image reference.
AttachmentName(image) ==
    CASE image = "![fig.png]"  -> "fig.png"
      [] image = "![data:png]" -> "embedded.png"
      [] OTHER                 -> image

-----------------------------------------------------------------------------
(* Application._update_markdown: the text written to the file. *)

\* Variant: the space-key marker is never written.
UpdateMarkdownPageIdOnly(document, page_id, key) ==
    Join(NL, <<PageIdMarker(page_id), document>>)

\* Variant: the file is written back without the markers.
UpdateMarkdownUnmarked(document, page_id, key) == document

UpdateMarkdown(document, page_id, key) ==
    LET hasFrontmatter == StartsWith(document, Dashes \o <<NL>>)
        index == IF hasFrontmatter
                 THEN Find(document, <<NL>> \o Dashes \o <<NL>>, 4) + 4
                 ELSE 0
        content ==
            (IF hasFrontmatter THEN <<SliceTo(document, index)>> ELSE <<>>)
            \o <<PageIdMarker(page_id)>>
            \o (IF Truthy(key) THEN <<SpaceKeyMarker(key)>> ELSE <<>>)
            \o <<SliceFrom(document, index)>>
    IN  Join(NL, content)


-----------------------------------------------------------------------------
(* The remote page client (api.ConfluenceSession). *)

\* the session's default space, and its domain and base path
DefaultSpace == "S1"
Domain == "wiki.example.com"
BasePath == "/wiki/"

\* ConfluencePage(id, space_key, title); NoPage stands for no result.
NoPage == [id |-> None, space_key |-> None, title |-> None, parent |-> None]

\* The space a remote page lives in.
SpaceOf(page) == IF Truthy(page.space_key) THEN page.space_key ELSE DefaultSpace

\* api.get_page(page_id, space_key=...): the page of that id; fails when there is none.
ApiGetPage(page_id, key) ==
    LET found == {p \in pages : p.id = page_id}
    IN  IF found = {} THEN [ok |-> FALSE, page |-> NoPage]
        ELSE [ok |-> TRUE, page |-> CHOOSE p \in found : TRUE]

\* api.get_or_create_page(title, parent_id, space_key=...): the page of that title
\* in the space, created under the parent when the space has none.
ApiGetOrCreatePage(title, parent_page_id, key) ==
    LET space == IF Truthy(key) THEN key ELSE space_key
        found == {p \in pages : p.title = title /\ SpaceOf(p) = space}
        new   == [id |-> ToString(next_id), space_key |-> key, title |-> title,
                  parent |-> parent_page_id]
    IN  IF found # {}
        THEN [page |-> CHOOSE p \in found : TRUE, created |-> FALSE,
              pages |-> pages, next_id |-> next_id]
        ELSE [page |-> new, created |-> TRUE,
              pages |-> pages \cup {new}, next_id |-> next_id + 1]

\* A remote call as the wiki sees it: the operation, the local document it is
\* issued for, its page id (the parent's, for get_or_create_page) and space key
\* arguments, its title or attachment name, the session's space at the time,
\* what it returned, and whether it created a page.
Call(op, path, page_id, key, title, session, result, created) ==
    [op |-> op, path |-> path, page_id |-> page_id, space_key |-> key,
     title |-> title, session |-> session, result |-> result,
     created |-> created, run |-> run]

\* The ways a remote call may go: it succeeds ("none"), it fails before the wiki
\* acted ("refused"), or it fails after the wiki acted ("lost").
Faults == {"none", "refused", "lost"}

-----------------------------------------------------------------------------
(* The Identity Map: Dict[Path, ConfluencePageMetadata], in insertion order. *)

Keys(map) == [k \in 1..Len(map) |-> map[k][1]]
KeySet(map) == {map[k][1] : k \in 1..Len(map)}
Lookup(map, key) == (CHOOSE k \in 1..Len(map) : map[k][1] = key)

\* map[key] = value
DictSet(map, key, value) ==
    IF key \in KeySet(map)
    THEN [map EXCEPT ![Lookup(map, key)] = <<key, value>>]
    ELSE Append(map, <<key, value>>)

\* ConfluencePageMetadata(...) of a remote page (lines 186-192)
Metadata(page) ==
    [domain |-> Domain, base_path |-> BasePath, page_id |-> page.id,
     space_key |-> IF Truthy(page.space_key) THEN page.space_key ELSE space_key,
     title |-> IF Truthy(page.title) THEN page.title ELSE ""]

-----------------------------------------------------------------------------
(* Application._get_or_create_page and Application._create_page. *)

\* Variant: the parent identity is required before the marker is looked at.
ResolutionParentFirst(qualified_id, parent_id) ==
    IF parent_id = NoneId THEN "ValueError"
    ELSE IF qualified_id # NoneId THEN "get_page"
    ELSE "create"

\* Variant: a markerless document without a parent identity gets a page anyway.
ResolutionWithoutParent(qualified_id, parent_id) ==
    IF qualified_id # NoneId THEN "get_page" ELSE "create"

\* What becomes of a document: its page is fetched, resolution fails, or a page
\* is created for it.
Resolution(qualified_id, parent_id) ==
    IF qualified_id # NoneId THEN "get_page"
    ELSE IF parent_id = NoneId THEN "ValueError"
    ELSE "create"

\* The title the front-matter assigns (None when it assigns none).
FrontmatterTitle(fm) ==
    IF ~fm.found THEN [status |-> "ok", title |-> None]
    ELSE LET properties == SafeLoad(fm.frontmatter)
         IN  IF properties.kind = "YAMLError"
             THEN [status |-> "YAMLError", title |-> None]
             ELSE IF properties.kind = "dict"
             THEN [status |-> "ok", title |-> properties.title]
             ELSE [status |-> "ok", title |-> None]

\* The title a new page gets: the one supplied, else the file name without extension.
PageTitle(absolute_path, title) ==
    IF title = None THEN Stem(NameOf(absolute_path)) ELSE title

\* The outcome of a resolution: how it ended, the remote calls it issued, the
\* wiki and the file after it, and the page it found.
Outcome(status, issued, wiki, nid, text, page) ==
    [status |-> status, calls |-> issued, pages |-> wiki, next_id |-> nid,
     text |-> text, page |-> page]

\* Variant: a page is created without asking whether one of that title exists.
CreatePageAlways(absolute_path, document, title, parent_id, fault) ==
    LET t == PageTitle(absolute_path, title)
        new == [id |-> ToString(next_id), space_key |-> parent_id.space_key,
                title |-> t, parent |-> parent_id.page_id]
        issued(result) ==
            <<Call("get_or_create_page", absolute_path, parent_id.page_id,
                   parent_id.space_key, t, space_key, result, TRUE)>>
    IN  CASE fault = "refused" ->
                Outcome("RemoteError", issued("RemoteError"), pages, next_id,
                        fs[absolute_path], NoPage)
          [] fault = "lost" ->
                Outcome("RemoteError", issued("RemoteError"), pages \cup {new},
                        next_id + 1, fs[absolute_path], NoPage)
          [] OTHER ->
                Outcome("ok", issued(new.id), pages \cup {new}, next_id + 1,
                        UpdateMarkdown(document, new.id, new.space_key), new)

CreatePage(absolute_path, document, title, parent_id, fault) ==
    LET t == PageTitle(absolute_path, title)
        r == ApiGetOrCreatePage(t, parent_id.page_id, parent_id.space_key)
        issued(result, created) ==
            <<Call("get_or_create_page", absolute_path, parent_id.page_id,
                   parent_id.space_key, t, space_key, result, created)>>
    IN  CASE fault = "refused" ->
                Outcome("RemoteError", issued("RemoteError", FALSE), pages, next_id,
                        fs[absolute_path], NoPage)
          [] fault = "lost" ->
                Outcome("RemoteError", issued("RemoteError", r.created), r.pages,
                        r.next_id, fs[absolute_path], NoPage)
          [] OTHER ->
                Outcome("ok", issued(r.page.id, r.created), r.pages, r.next_id,
                        UpdateMarkdown(document, r.page.id, r.page.space_key),
                        r.page)

GetOrCreatePage(absolute_path, parent_id, fault) ==
    LET read         == fs[absolute_path]
        ex           == ExtractQualifiedId(read)
        qualified_id == ex.id
        fm           == ExtractFrontmatter(ex.text)
        document     == fm.text
        route        == Resolution(qualified_id, parent_id)
        got          == ApiGetPage(qualified_id.page_id, qualified_id.space_key)
        title        == FrontmatterTitle(fm)
        fetch(result) ==
            <<Call("get_page", absolute_path, qualified_id.page_id,
                   qualified_id.space_key, None, space_key, result, FALSE)>>
    IN  CASE route = "get_page" ->
                IF fault = "none" /\ got.ok
                THEN Outcome("ok", fetch(got.page.id), pages, next_id, read, got.page)
                ELSE Outcome("RemoteError", fetch("RemoteError"), pages, next_id,
                             read, NoPage)
          [] route = "ValueError" ->
                Outcome("ValueError", <<>>, pages, next_id, read, NoPage)
          [] OTHER ->
                IF title.status # "ok"
                THEN Outcome(title.status, <<>>, pages, next_id, read, NoPage)
                ELSE CreatePage(absolute_path, document, title.title, parent_id, fault)

\* An invocation of _get_or_create_page: the document, the parent identity it
\* was given, whether it is its directory's representative, and how it ended.
Resolved(absolute_path, parent_id, representative, outcome) ==
    [path |-> absolute_path, parent_id |-> parent_id,
     representative |-> representative, status |-> outcome.status,
     page_id |-> outcome.page.id, run |-> run]


-----------------------------------------------------------------------------
(* The local trees and wikis a run may start from. *)

Root    == <<"r">>
RIndex  == <<"r", "index.md">>
RReadme == <<"r", "README.md">>
RA      == <<"r", "a.md">>
D       == <<"r", "d">>
DIndex  == <<"r", "d", "index.md">>
DX      == <<"r", "d", "x.md">>
E       == <<"r", "e">>
EX      == <<"r", "e", "x.md">>

Directories == {Root, D, E}
Files == {RIndex, RReadme, RA, DIndex, DX, EX}

\* entry.is_dir() and entry.is_file()
IsDir(path) == path \in Directories
IsFile(path) == path \in Files

\* Texts of local files.
Body == <<"b">>
WithImages == <<"![fig.png]", NL, "![data:png]", NL, "b">>
WithFrontmatter == Dashes \o <<NL, "title:", "T", NL>> \o Dashes \o <<NL, "b">>
Unclosed == Dashes \o <<NL, "b">>
Marked(page_id) == PageIdMarker(page_id) \o <<NL>> \o Body
MarkedIn(page_id, key) ==
    PageIdMarker(page_id) \o <<NL>> \o SpaceKeyMarker(key) \o <<NL>> \o WithImages
Absent == <<"(no file)">>

\* Texts that open with a front-matter block whose properties are not a mapping
\* with a string title: unparseable, a scalar, a mapping without a title, a
\* mapping whose title is null.
Malformed == Dashes \o <<NL, "{", NL>> \o Dashes \o <<NL, "b">>
Scalar    == Dashes \o <<NL, "word", NL>> \o Dashes \o <<NL, "b">>
Untitled  == Dashes \o <<NL, "author:", "A", NL>> \o Dashes \o <<NL, "b">>
NullTitle == Dashes \o <<NL, "title:", NL>> \o Dashes \o <<NL, "b">>

\* The texts each file may hold when a behaviour starts.
Texts(path) ==
    CASE path = RIndex  -> {Absent, WithFrontmatter, MarkedIn("91", "S2")}
      [] path = RReadme -> {Absent, Marked("92")}
      [] path = RA      -> {WithImages, Unclosed, MarkedIn("93", "S2")}
      [] path = DIndex  -> {Absent, Body}
      [] path = DX      -> {Absent, Body}
      [] path = EX      -> {Absent, Body}

\* The sets of paths the matcher may exclude.
Exclusions == {{}, {RIndex}, {RA, D}}

\* The pages the wiki holds when a behaviour starts.
InitialPages ==
    {[id |-> "90", space_key |-> "S1", title |-> "Home", parent |-> None],
     [id |-> "91", space_key |-> "S2", title |-> "Guide", parent |-> None],
     [id |-> "92", space_key |-> None, title |-> "Read me", parent |-> "90"],
     [id |-> "93", space_key |-> "S2", title |-> "Annex", parent |-> "91"]}

\* The paths synchronize may be given.
Targets == {Root, RA}

\* Texts that open with dashes: a front-matter block that ends the text, one
\* without properties, and dashes that open no line of their own.
ClosedAtEnd == Dashes \o <<NL, "title:", "T", NL>> \o Dashes
EmptyBlock  == Dashes \o <<NL>> \o Dashes \o <<NL, "b">>
Rule        == Dashes \o <<"b">>

\* The documents _update_markdown may be given.
Documents ==
    {<<>>, Body, WithImages, WithFrontmatter, Unclosed, ClosedAtEnd, EmptyBlock,
     Rule, Malformed}

\* The texts each file may hold in the behaviours that exercise the writer.
WriterTexts(path) ==
    CASE path = RA -> Documents
      [] path = DX -> Documents \cup {Absent}
      [] OTHER     -> {Absent}

\* The texts each file may hold in the behaviours that exercise front-matter.
FrontmatterTexts(path) ==
    CASE path = RIndex  -> {Absent}
      [] path = RReadme -> {Absent}
      [] path = RA      -> {WithFrontmatter, Malformed, Scalar, Untitled, NullTitle}
      [] path = DIndex  -> {Absent, Untitled}
      [] path = DX      -> {Absent, Malformed, Scalar}
      [] path = EX      -> {Absent, NullTitle}

\* Before the first run: the root directory holds a.md, possibly index.md and
\* README.md, the directory d (possibly empty) and, when it holds x.md, the
\* directory e; nothing has been called, indexed or synchronized.
Start(texts, exclusions, roots) ==
    /\ fs \in {f \in [Files -> UNION {texts[p] : p \in Files}] :
                  \A p \in Files : f[p] \in texts[p]}
    /\ tree = {Root, D}
              \cup {p \in Files : fs[p] # Absent}
              \cup {d \in {E} : fs[EX] # Absent}
    /\ excluded \in exclusions
    /\ root_page_id \in roots
    /\ pages = InitialPages
    /\ next_id = 1
    /\ space_key = DefaultSpace
    /\ calls = <<>>
    /\ resolved = <<>>
    /\ page_metadata = <<>>
    /\ stack = <<>>
    /\ todo = <<>>
    /\ targets = <<>>
    /\ original = fs
    /\ pc = "idle"
    /\ error = None
    /\ run = 0
    /\ faults = 0

Init == Start([p \in Files |-> Texts(p)], Exclusions, {"90", None})


-----------------------------------------------------------------------------
(* Application.synchronize, synchronize_page, synchronize_directory. *)

\* An exception leaves the run: every activation record is unwound.
Abort(status) ==
    /\ pc' = "failed"
    /\ error' = status
    /\ stack' = <<>>
    /\ todo' = <<>>

\* root_id of synchronize_directory (lines 69-73)
RootId ==
    IF Truthy(root_page_id) THEN QualifiedID(root_page_id, space_key) ELSE NoneId

\* An activation record of _index_directory.
Frame(local_dir, root_id, files, directories, parent_id, at) ==
    [local_dir |-> local_dir, root_id |-> root_id, files |-> files,
     directories |-> directories, parent_id |-> parent_id, at |-> at]

\* The call _index_directory(local_dir, root_id, page_metadata), about to start.
Enter(local_dir, root_id) == Frame(local_dir, root_id, <<>>, <<>>, NoneId, "scan")

\* synchronize(path): a directory is indexed and then synchronized, a file is
\* synchronized with an empty Identity Map.
Synchronize(path) ==
    /\ pc \in {"idle", "done", "failed"}
    /\ run < MaxRuns
    /\ path \in tree
    /\ run' = run + 1
    /\ targets' = Append(targets, path)
    /\ error' = None
    /\ page_metadata' = <<>>
    /\ IF IsDir(path)
       THEN /\ pc' = "index"
            /\ stack' = <<Enter(path, RootId)>>
            /\ todo' = <<>>
       ELSE /\ pc' = "sync"
            /\ stack' = <<>>
            /\ todo' = <<path>>
    /\ UNCHANGED <<env, fs, remote, space_key, calls, resolved, faults>>

-----------------------------------------------------------------------------
(* Application._index_directory. *)

Range(seq) == {seq[k] : k \in 1..Len(seq)}

\* The orders in which a set may be listed.
Orders(S) ==
    {seq \in [1..Cardinality(S) -> S] :
        \A i, j \in 1..Cardinality(S) : i # j => seq[i] # seq[j]}

\* Variant: the representative stays in the list of plain files.
RemoveNothing(seq, x) == seq

\* list.remove(x)
Remove(seq, x) == SelectSeq(seq, LAMBDA y : y # x)

NoPath == <<>>

\* Matcher(..., local_dir).is_excluded(name, is_dir)
IsExcluded(local_dir, name, is_dir) == Child(local_dir, name) \in excluded

\* os.scandir(local_dir)
Scandir(local_dir) ==
    {p \in tree : Len(p) = Len(local_dir) + 1 /\ ParentOf(p) = local_dir}

\* Variant: the matcher is not consulted.
ListedUnfiltered(local_dir) == Scandir(local_dir)

\* The entries of local_dir the matcher lets through (lines 111-113).
Listed(local_dir) ==
    {p \in Scandir(local_dir) : ~IsExcluded(local_dir, NameOf(p), IsDir(p))}

\* Variant: index.md is taken as the representative without looking for it.
ParentDocUnchecked(local_dir, files) == Child(local_dir, "index.md")

\* Variant: README.md is looked for before index.md.
ParentDocReadmeFirst(local_dir, files) ==
    IF Child(local_dir, "README.md") \in Range(files)
    THEN Child(local_dir, "README.md")
    ELSE IF Child(local_dir, "index.md") \in Range(files)
    THEN Child(local_dir, "index.md")
    ELSE NoPath

\* The representative document of a directory (lines 121-125).
ParentDoc(local_dir, files) ==
    IF Child(local_dir, "index.md") \in Range(files)
    THEN Child(local_dir, "index.md")
    ELSE IF Child(local_dir, "README.md") \in Range(files)
    THEN Child(local_dir, "README.md")
    ELSE NoPath

\* Variant: the inherited parent identity is handed on unchanged.
ParentIdInherited(text, root_id) == root_id

\* The parent identity handed to the files and subdirectories of a directory
\* with a representative: read back from the representative's file (line 134).
ParentId(text, root_id) == OrElse(ExtractQualifiedId(text).id, root_id)

\* Variant: the loop visits every file of the tree rather than the keys of the map.
SyncEveryFile(map) ==
    CHOOSE seq \in Orders({p \in tree : IsFile(p)}) : TRUE

\* Variant: the loop visits the keys of the map from the last to the first.
SyncKeysReversed(map) == [k \in 1..Len(map) |-> map[Len(map) + 1 - k][1]]

\* The keys the synchronization loop visits (line 78).
SyncKeys(map) == Keys(map)

\* The top activation record is replaced.
Continue(frame) == stack' = [stack EXCEPT ![Len(stack)] = frame]

\* Variant: a document's content is updated as soon as it is indexed.
IndexedAndUpdated(doc, outcome) ==
    /\ calls' = calls \o outcome.calls
                \o <<Call("update_page", doc, outcome.page.id, None, None,
                          space_key, "ok", FALSE)>>
    /\ pages' = outcome.pages
    /\ next_id' = outcome.next_id
    /\ fs' = [fs EXCEPT ![doc] = outcome.text]
    /\ page_metadata' = DictSet(page_metadata, doc, Metadata(outcome.page))

\* A resolution that succeeded takes effect: the remote calls, the wiki, the
\* file, and the entry in the Identity Map (lines 130-132, 139-141).
Indexed(doc, outcome) ==
    /\ calls' = calls \o outcome.calls
    /\ pages' = outcome.pages
    /\ next_id' = outcome.next_id
    /\ fs' = [fs EXCEPT ![doc] = outcome.text]
    /\ page_metadata' = DictSet(page_metadata, doc, Metadata(outcome.page))

\* A resolution that failed: what it did remotely stays done, the run is over.
NotIndexed(outcome) ==
    /\ calls' = calls \o outcome.calls
    /\ pages' = outcome.pages
    /\ next_id' = outcome.next_id
    /\ Abort(outcome.status)
    /\ UNCHANGED <<fs, page_metadata>>

\* Lines 105-136: the directory is listed, its representative is chosen and
\* resolved, and the parent identity of the rest of the directory is set.
IndexDirectory(fault) ==
    /\ pc = "index"
    /\ fault # "none" => faults < MaxFaults
    /\ stack # <<>>
    /\ LET top == stack[Len(stack)]
       IN  /\ top.at = "scan"
           /\ \E files \in Orders({p \in Listed(top.local_dir) : IsFile(p)}),
                 directories \in Orders({p \in Listed(top.local_dir) : IsDir(p)}) :
                LET parent_doc == ParentDoc(top.local_dir, files)
                    outcome == GetOrCreatePage(parent_doc, top.root_id, fault)
                IN  IF parent_doc = NoPath
                    THEN /\ fault = "none"
                         /\ Continue(Frame(top.local_dir, top.root_id, files,
                                           directories, top.root_id, "files"))
                         /\ UNCHANGED <<fs, remote, calls, resolved, page_metadata,
                                        todo, pc, error>>
                    ELSE /\ resolved' = Append(resolved,
                                Resolved(parent_doc, top.root_id, TRUE, outcome))
                         /\ IF outcome.status = "ok"
                            THEN /\ Indexed(parent_doc, outcome)
                                 /\ Continue(Frame(top.local_dir, top.root_id,
                                        Remove(files, parent_doc), directories,
                                        ParentId(outcome.text, top.root_id), "files"))
                                 /\ UNCHANGED <<todo, pc, error>>
                            ELSE NotIndexed(outcome)
    /\ faults' = IF fault = "none" THEN faults ELSE faults + 1
    /\ UNCHANGED <<env, space_key, targets, run>>

\* Lines 138-141: the next plain file of the directory is resolved.
IndexFile(fault) ==
    /\ pc = "index"
    /\ fault # "none" => faults < MaxFaults
    /\ stack # <<>>
    /\ LET top == stack[Len(stack)]
           doc == Head(top.files)
           outcome == GetOrCreatePage(doc, top.parent_id, fault)
       IN  /\ top.at = "files"
           /\ top.files # <<>>
           /\ resolved' = Append(resolved, Resolved(doc, top.parent_id, FALSE, outcome))
           /\ IF outcome.status = "ok"
              THEN /\ Indexed(doc, outcome)
                   /\ Continue([top EXCEPT !.files = Tail(top.files)])
                   /\ UNCHANGED <<todo, pc, error>>
              ELSE NotIndexed(outcome)
    /\ faults' = IF fault = "none" THEN faults ELSE faults + 1
    /\ UNCHANGED <<env, space_key, targets, run>>

\* Lines 143-144: the next subdirectory is entered with the parent identity.
IndexSubdirectory ==
    /\ pc = "index"
    /\ stack # <<>>
    /\ LET top == stack[Len(stack)]
       IN  /\ top.at = "files"
           /\ top.files = <<>>
           /\ top.directories # <<>>
           /\ stack' = Append(
                  [stack EXCEPT ![Len(stack)] =
                      [top EXCEPT !.directories = Tail(top.directories)]],
                  Enter(Head(top.directories), top.parent_id))
    /\ UNCHANGED <<env, fs, remote, space_key, calls, resolved, page_metadata,
                   todo, targets, pc, error, run, faults>>

\* _index_directory returns; when the outermost call returns, the index is
\* built and the synchronization loop starts (lines 75-78).
IndexReturn ==
    /\ pc = "index"
    /\ stack # <<>>
    /\ LET top == stack[Len(stack)]
       IN  /\ top.at = "files"
           /\ top.files = <<>>
           /\ top.directories = <<>>
    /\ stack' = SubSeq(stack, 1, Len(stack) - 1)
    /\ IF Len(stack) = 1
       THEN /\ todo' = SyncKeys(page_metadata)
            /\ pc' = IF SyncKeys(page_metadata) = <<>> THEN "done" ELSE "sync"
       ELSE UNCHANGED <<todo, pc>>
    /\ UNCHANGED <<env, fs, remote, space_key, calls, resolved, page_metadata,
                   targets, error, run, faults>>


-----------------------------------------------------------------------------
(* Application._synchronize_page and Application._update_document. *)

\* converter.ConfluenceDocument(page_path, ...).id: the identity the file carries.
DocumentId(page_path) == ExtractQualifiedId(fs[page_path]).id

\* Variant: the session stays in its current space.
SwitchSpaceNever(id, current) == current

\* The space the session is in while a document is updated (lines 91-95).
SwitchSpace(id, current) ==
    IF Truthy(id.space_key) THEN id.space_key ELSE current

\* The space the session is in once the document is done: the scope of
\* switch_space has ended (lines 92-93).
LeaveSpace(before, during) == before

\* The upload of one image of a document.
Upload(page_path, id, image, session) ==
    Call("upload_attachment", page_path, id.page_id, None, AttachmentName(image),
         session, "ok", FALSE)

\* Variant: the content is updated before the attachments are uploaded.
UpdateDocumentContentFirst(page_path, id, images, embedded_images, session) ==
    <<Call("update_page", page_path, id.page_id, None, None, session, "ok", FALSE)>>
    \o [k \in 1..Len(images) |-> Upload(page_path, id, images[k], session)]
    \o [k \in 1..Len(embedded_images) |->
            Upload(page_path, id, embedded_images[k], session)]

\* The remote calls of _update_document, in order (lines 221-238).
UpdateDocument(page_path, id, images, embedded_images, session) ==
    [k \in 1..Len(images) |-> Upload(page_path, id, images[k], session)]
    \o [k \in 1..Len(embedded_images) |->
            Upload(page_path, id, embedded_images[k], session)]
    \o <<Call("update_page", page_path, id.page_id, None, None, session, "ok", FALSE)>>

\* The calls issued when the call number failing fails (0: none does).
Issued(requests, failing) ==
    IF failing = 0 THEN requests
    ELSE SubSeq(requests, 1, failing - 1)
         \o <<[requests[failing] EXCEPT !.result = "RemoteError"]>>

\* The remote calls synchronizing a document issues, in the space it switches to.
Requests(page_path) ==
    UpdateDocument(page_path, DocumentId(page_path), Images(fs[page_path]),
                   EmbeddedImages(fs[page_path]),
                   SwitchSpace(DocumentId(page_path), space_key))

\* Lines 78-95: the next document of the Identity Map is synchronized.
\* failing is the number of the remote call that fails (0: none does).
SynchronizePage(failing) ==
    /\ pc = "sync"
    /\ failing > 0 => faults < MaxFaults
    /\ todo # <<>>
    /\ LET page_path == Head(todo)
           id == DocumentId(page_path)
           session == SwitchSpace(id, space_key)
           requests == Requests(page_path)
       IN  IF id = NoneId
           THEN /\ failing = 0
                /\ Abort("ValueError")
                /\ UNCHANGED <<calls, space_key, faults>>
           ELSE /\ failing <= Len(requests)
                /\ calls' = calls \o Issued(requests, failing)
                /\ space_key' = LeaveSpace(space_key, session)
                /\ IF failing > 0
                   THEN /\ Abort("RemoteError")
                        /\ faults' = faults + 1
                   ELSE /\ todo' = Tail(todo)
                        /\ pc' = IF Tail(todo) = <<>> THEN "done" ELSE "sync"
                        /\ UNCHANGED <<stack, error, faults>>
    /\ UNCHANGED <<env, fs, remote, resolved, page_metadata, targets, run>>

-----------------------------------------------------------------------------
(* The specifications. *)

\* Runs in which every remote call succeeds.
Next ==
    \/ \E path \in Targets : Synchronize(path)
    \/ IndexDirectory("none")
    \/ IndexFile("none")
    \/ IndexSubdirectory
    \/ IndexReturn
    \/ SynchronizePage(0)

Spec == Init /\ [][Next]_vars

\* The texts each file may hold in the behaviours whose termination is checked.
LiveTexts(path) ==
    CASE path = RIndex  -> {MarkedIn("91", "S2")}
      [] path = RReadme -> {Absent}
      [] path = RA      -> {WithImages}
      [] path = DIndex  -> {Body}
      [] path = DX      -> {Body}
      [] path = EX      -> {Body}

\* Directory runs in which every remote call succeeds and the loop of lines
\* 78-79, once entered, goes on to its next document.
InitL == Start([p \in Files |-> LiveTexts(p)], Exclusions, {"90"})

NextL ==
    \/ Synchronize(Root)
    \/ IndexDirectory("none")
    \/ IndexFile("none")
    \/ IndexSubdirectory
    \/ IndexReturn
    \/ SynchronizePage(0)

SpecL == InitL /\ [][NextL]_vars /\ WF_vars(SynchronizePage(0))

\* Runs in which remote calls may fail: of a tree without exclusions and
\* without README.md, whose a.md is markerless, under a configured root page.
InitF ==
    /\ Init
    /\ excluded = {}
    /\ root_page_id # None
    /\ fs[RReadme] = Absent
    /\ fs[RA] = WithImages

NextF ==
    \/ \E path \in Targets : Synchronize(path)
    \/ \E fault \in Faults : IndexDirectory(fault)
    \/ \E fault \in Faults : IndexFile(fault)
    \/ IndexSubdirectory
    \/ IndexReturn
    \/ \E failing \in 0..(IF todo = <<>> THEN 0 ELSE Len(Requests(Head(todo)))) :
           SynchronizePage(failing)

SpecF == InitF /\ [][NextF]_vars

\* _update_markdown(path, document, page_id, space_key), given the text of a
\* file that has not been written yet.
UpdateMarkdownFile(path, page_id, key) ==
    /\ pc = "idle"
    /\ path \in tree
    /\ fs[path] = original[path]
    /\ fs' = [fs EXCEPT ![path] = UpdateMarkdown(fs[path], page_id, key)]
    /\ UNCHANGED <<env, remote, space_key, calls, resolved, page_metadata, stack,
                   todo, targets, pc, error, run, faults>>

\* The writer alone, applied to every document with every identity.
InitW == Start([p \in Files |-> WriterTexts(p)], {{}}, {"90"})

NextW ==
    \E path \in {RA, DX}, page_id \in {"1", "92"}, key \in {None, "", "S2"} :
        UpdateMarkdownFile(path, page_id, key)

SpecW == InitW /\ [][NextW]_vars

\* Runs in which every remote call succeeds, of trees whose markerless documents
\* open with front-matter of every kind, under a configured root page.
InitY == Start([p \in Files |-> FrontmatterTexts(p)], {{}}, {"90"})

SpecY == InitY /\ [][Next]_vars


-----------------------------------------------------------------------------
(* Vocabulary of the properties. *)

\* The text carries no identity marker.
Markerless(text) == ExtractQualifiedId(text).id = NoneId

\* The files a directory run reaches: not excluded, in directories not excluded.
Reachable(path) ==
    /\ path \in tree
    /\ \A n \in 2..Len(path) : SubSeq(path, 1, n) \notin excluded

ReachableFiles == {p \in Files : Reachable(p)}

\* The documents a run given path synchronizes.
Covered(path) == IF IsDir(path) THEN ReachableFiles ELSE {path}

\* The places in the log of the remote calls op issued for a document in run r.
CallsFor(path, op, r) ==
    {k \in 1..Len(calls) :
        calls[k].path = path /\ calls[k].op = op /\ calls[k].run = r}

\* The remote pages created for a document, over all runs.
Creations(path) ==
    {k \in 1..Len(calls) : calls[k].path = path /\ calls[k].created}

\* Run r fetched the document's page by the identity its file carries and did
\* not ask for a page to be created.
TookMarkerPath(path, r) ==
    /\ CallsFor(path, "get_or_create_page", r) = {}
    /\ \E k \in CallsFor(path, "get_page", r) :
           calls[k].page_id = ReadQualifiedId(path).page_id

\* Every run so far was given the directory.
DirectoryRuns == \A r \in 1..Len(targets) : IsDir(targets[r])

\* The characters of text that belong to an identity marker.
MarkerPlaces(text) ==
    UNION {{m, m + 1, m + 2} : m \in
        {m \in 1..(Len(text) - 2) :
            /\ text[m] \in {"<!-- confluence-page-id:", "<!-- confluence-space-key:"}
            /\ text[m + 2] = "-->"}}

\* new is old with marker lines put in at one place: nothing else is added,
\* nothing is removed, nothing is reordered.
MarkersInserted(old, new) ==
    \E i \in 0..Len(old) :
        LET n == Len(new) - Len(old)
        IN  /\ n > 0
            /\ SliceTo(new, i) = SliceTo(old, i)
            /\ SliceFrom(new, i + n) = SliceFrom(old, i)
            /\ \A k \in (i + 1)..(i + n) :
                   new[k] = NL \/ k \in MarkerPlaces(new)

-----------------------------------------------------------------------------
(* C1: idempotence of synchronizing twice. *)

-----------------------------------------------------------------------------
(* C2: front-matter survives the minting of an identity. *)

\* C2: when indexing mints an identity for a markerless document that has a
\* front-matter block, the rewritten file is the original text with the marker
\* lines added: the front-matter block and the body are still there, verbatim.
C2_FrontmatterPreserved ==
    \A p \in Files :
        ( /\ Markerless(original[p])
          /\ ExtractFrontmatter(original[p]).found
          /\ fs[p] # original[p] ) =>
            MarkersInserted(original[p], fs[p])


-----------------------------------------------------------------------------
(* Vocabulary of the parent-document convention. *)

\* path lies in dir or in one of its subdirectories.
Under(path, dir) == Len(path) > Len(dir) /\ SubSeq(path, 1, Len(dir)) = dir

IndexOf(dir) == Child(dir, "index.md")
ReadmeOf(dir) == Child(dir, "README.md")

\* The representative the convention gives a directory: index.md, failing that
\* README.md, among the files that exist and are not excluded.
Representative(dir) ==
    IF Reachable(IndexOf(dir)) THEN IndexOf(dir)
    ELSE IF Reachable(ReadmeOf(dir)) THEN ReadmeOf(dir)
    ELSE NoPath

\* The parent identity a directory hands to its plain files and subdirectories:
\* its representative's identity, else what the directory above hands down, else
\* the root identity.
RECURSIVE Handed(_)
Handed(dir) ==
    IF Representative(dir) # NoPath THEN ReadQualifiedId(Representative(dir))
    ELSE IF dir = Root THEN RootId
    ELSE Handed(ParentOf(dir))

\* The parent identity a directory receives.
Received(dir) == IF dir = Root THEN RootId ELSE Handed(ParentOf(dir))

\* The parent identity a file is to be resolved with.
ExpectedParent(path) ==
    IF path = Representative(ParentOf(path))
    THEN Received(ParentOf(path))
    ELSE Handed(ParentOf(path))

-----------------------------------------------------------------------------
(* C3: the identity of index.md is the parent identity below it. *)

-----------------------------------------------------------------------------
(* C4: index.md wins over README.md. *)

\* C4: if both index.md and README.md exist and are not excluded in a
\* directory, index.md is resolved as the representative, README.md is resolved
\* as a plain file with index.md's identity as its parent, and the parent
\* identity of the directory's files and subdirectories is index.md's identity,
\* never README.md's.
C4_IndexBeforeReadme ==
    \A dir \in Directories :
        (Reachable(IndexOf(dir)) /\ Reachable(ReadmeOf(dir))) =>
            /\ \A k \in 1..Len(resolved) :
                   /\ resolved[k].path = IndexOf(dir) => resolved[k].representative
                   /\ resolved[k].path = ReadmeOf(dir) =>
                          /\ ~resolved[k].representative
                          /\ resolved[k].parent_id = ReadQualifiedId(IndexOf(dir))
                   /\ ReadQualifiedId(ReadmeOf(dir)) # NoneId =>
                          resolved[k].parent_id # ReadQualifiedId(ReadmeOf(dir))
            /\ \A n \in 1..Len(stack) :
                   (stack[n].local_dir = dir /\ stack[n].at = "files") =>
                       /\ stack[n].parent_id = ReadQualifiedId(IndexOf(dir))
                       /\ IndexOf(dir) \notin Range(stack[n].files)

\* Both files exist, and README.md has been resolved as a plain file under
\* index.md's identity.
C4_Witness ==
    /\ Reachable(RIndex) /\ Reachable(RReadme)
    /\ \E i, k \in 1..Len(resolved) :
           /\ i < k
           /\ resolved[i].path = RIndex /\ resolved[i].representative
           /\ resolved[k].path = RReadme /\ ~resolved[k].representative
           /\ resolved[k].status = "ok"
           /\ resolved[k].parent_id = ReadQualifiedId(RIndex)
           /\ ReadQualifiedId(RReadme) # ReadQualifiedId(RIndex)

-----------------------------------------------------------------------------
(* C5: what the matcher excludes is left alone. *)

\* C5: in a directory run, a file or directory that the matcher excludes, or
\* that lies in an excluded directory, has no entry in the Identity Map, no
\* remote call is issued for it in either phase, it is never resolved (so never
\* used as a representative), and an excluded directory is never entered.
C5_ExcludedUntouched ==
    \A p \in tree :
        ~Reachable(p) =>
            /\ p \notin KeySet(page_metadata)
            /\ \A k \in 1..Len(calls) :
                   calls[k].path = p => ~IsDir(targets[calls[k].run])
            /\ \A k \in 1..Len(resolved) : resolved[k].path # p
            /\ \A n \in 1..Len(stack) : stack[n].local_dir # p
            /\ \A k \in 1..Len(todo) : todo[k] = p => ~IsDir(targets[run])

\* A directory run has completed, with remote calls, on a tree with an excluded
\* file, an excluded directory that holds a file, or an excluded index.md.
C5_Witness ==
    /\ pc = "done" /\ DirectoryRuns /\ calls # <<>>
    /\ \E p \in Files : p \in tree /\ ~Reachable(p) /\ ~Markerless(fs[p])
    /\ \E p \in Files : p \in tree /\ ParentOf(p) \in excluded
    /\ \E p \in Files : Reachable(p) /\ ~Markerless(original[p])


-----------------------------------------------------------------------------
(* Vocabulary of the synchronization phase. *)

Last(seq) == seq[Len(seq)]

\* The remote calls of the synchronization phase.
IsSyncCall(call) == call.op \in {"upload_attachment", "update_page"}
\* The remote calls of the indexing phase.
IsIndexCall(call) == call.op \in {"get_page", "get_or_create_page"}

\* The places in the log of the synchronization calls of run r.
SyncCalls(r) == {k \in 1..Len(calls) : calls[k].run = r /\ IsSyncCall(calls[k])}

\* The entries the Identity Map holds for a path.
Entries(map, path) == {k \in 1..Len(map) : map[k][1] = path}

-----------------------------------------------------------------------------
(* C6: a document's space is switched to, and left again. *)

\* C6: the attachment uploads and the content update of a document whose
\* identity carries a space key are issued while the session's current space is
\* that space (in particular when it differs from the default), those of a
\* document without a space key are issued in the default space, and between
\* documents the session's current space is the default.
C6_SpaceScoped ==
    /\ space_key = DefaultSpace
    /\ \A k \in 1..Len(calls) :
           IsSyncCall(calls[k]) =>
               LET id == DocumentId(calls[k].path)
               IN  calls[k].session =
                       IF Truthy(id.space_key) THEN id.space_key ELSE DefaultSpace

\* A document marked with another space was updated there, and the document
\* synchronized after it, one without a space key, in the default space.
C6_Witness ==
    \E i, j \in 1..Len(calls) :
        /\ j = i + 1
        /\ calls[i].run = calls[j].run
        /\ calls[i].op = "update_page"
        /\ DocumentId(calls[i].path).space_key \notin {None, DefaultSpace}
        /\ calls[i].session = DocumentId(calls[i].path).space_key
        /\ IsSyncCall(calls[j])
        /\ calls[j].path # calls[i].path
        /\ calls[j].session = DefaultSpace

-----------------------------------------------------------------------------
(* C7: attachments first, content last. *)

\* C7: in every run, a synchronized document gets a single update_page call,
\* and every upload_attachment call for it precedes that call.
C7_AttachmentsBeforeContent ==
    \A i, j \in 1..Len(calls) :
        ( /\ calls[i].op = "update_page"
          /\ i # j
          /\ calls[j].path = calls[i].path
          /\ calls[j].run = calls[i].run ) =>
            /\ calls[j].op # "update_page"
            /\ calls[j].op = "upload_attachment" => j < i

\* A document with a referenced image and an embedded image was synchronized:
\* both uploads, then the update.
C7_Witness ==
    \E i \in 1..Len(calls) :
        /\ i + 2 <= Len(calls)
        /\ calls[i].op = "upload_attachment" /\ calls[i].title = "fig.png"
        /\ calls[i + 1].op = "upload_attachment"
        /\ calls[i + 1].title = "embedded.png"
        /\ calls[i + 2].op = "update_page"
        /\ calls[i + 2].path = calls[i].path
        /\ calls[i + 1].path = calls[i].path

-----------------------------------------------------------------------------
(* C8: the index is complete before anything is synchronized. *)

\* C8: in a directory run, no upload_attachment or update_page call is issued
\* while the tree is being indexed; when the first is issued, every call of
\* _index_directory has returned and the Identity Map has an entry for every
\* reachable file; and the map is not modified during the synchronization phase.
C8_TwoPhase ==
    [][ IsDir(Last(targets')) =>
          /\ pc' = "index" => SyncCalls(run)' = {}
          /\ SyncCalls(run)' # {} =>
                 /\ stack' = <<>>
                 /\ KeySet(page_metadata') = ReachableFiles
          /\ (pc = "sync" /\ run' = run) => page_metadata' = page_metadata
      ]_vars

\* A directory run is in its synchronization phase: files of two directories
\* were indexed, one document has been updated, others are still to come.
C8_Witness ==
    /\ pc = "sync" /\ IsDir(Last(targets))
    /\ SyncCalls(run) # {}
    /\ todo # <<>>
    /\ DX \in KeySet(page_metadata) /\ RA \in KeySet(page_metadata)
    /\ \E k \in 1..Len(calls) : calls[k].run = run /\ IsIndexCall(calls[k])

-----------------------------------------------------------------------------
(* C9: one entry per synchronized file. *)

\* C9 as stated: every file that will be synchronized has exactly one entry in
\* the Identity Map before its synchronization begins, in directory mode and in
\* single-file mode alike.
C9_OneEntryInEveryMode ==
    pc = "sync" =>
        \A k \in 1..Len(todo) :
            Cardinality(Entries(page_metadata, todo[k])) = 1

\* C9 amended: in directory mode every file that will be synchronized has
\* exactly one entry in the Identity Map before its synchronization begins; in
\* single-file mode the map is empty and the file is synchronized without one.
C9_OneEntryInDirectoryMode ==
    pc = "sync" =>
        IF IsDir(Last(targets))
        THEN \A k \in 1..Len(todo) :
                 Cardinality(Entries(page_metadata, todo[k])) = 1
        ELSE page_metadata = <<>> /\ todo = <<Last(targets)>>

\* A directory run is about to synchronize several files, on a tree that also
\* holds a file the run does not reach.
C9_Witness ==
    /\ pc = "sync" /\ IsDir(Last(targets))
    /\ Len(todo) >= 2
    /\ \E p \in Files : p \in tree /\ ~Reachable(p)

-----------------------------------------------------------------------------
(* C10: the marker is authoritative. *)

\* C10: resolving a document that carries an identity marker issues exactly
\* one remote call, get_page for the marked page id and space key, creates no
\* remote page, leaves the local files unchanged and does not fail for want of
\* a parent identity, whatever parent identity it is given.
C10_MarkerIsAuthoritative ==
    [][ \A p \in Files :
          ( /\ Len(resolved') = Len(resolved) + 1
            /\ Last(resolved').path = p
            /\ ~Markerless(fs[p]) ) =>
              LET id == ExtractQualifiedId(fs[p]).id
              IN  /\ Len(calls') = Len(calls) + 1
                  /\ SubSeq(calls', 1, Len(calls)) = calls
                  /\ Last(calls').op = "get_page"
                  /\ Last(calls').path = p
                  /\ Last(calls').page_id = id.page_id
                  /\ Last(calls').space_key = id.space_key
                  /\ ~Last(calls').created
                  /\ pages' = pages
                  /\ fs' = fs
                  /\ Last(resolved').status # "ValueError"
      ]_vars

\* A marked document was resolved with no parent identity and with one: both
\* times its page was fetched.
C10_Witness ==
    \E i, j \in 1..Len(resolved) :
        /\ resolved[i].parent_id = NoneId /\ resolved[i].status = "ok"
        /\ resolved[j].parent_id # NoneId /\ resolved[j].status = "ok"
        /\ ~Markerless(original[resolved[i].path])
        /\ ~Markerless(original[resolved[j].path])
        /\ CallsFor(resolved[i].path, "get_page", resolved[i].run) # {}
        /\ CallsFor(resolved[j].path, "get_page", resolved[j].run) # {}

-----------------------------------------------------------------------------
(* C11: a markerless document without a parent identity ends the run. *)

\* C11: resolving a markerless document with no parent identity fails with a
\* ValueError that aborts the whole run: no remote call is issued for the file,
\* the wiki and the local files stay as they are, the file gets no entry in the
\* Identity Map, the run takes no further step, and no upload_attachment or
\* update_page call belongs to that run.
C11_NoParentAborts ==
    [][ /\ \A p \in Files :
             ( /\ Len(resolved') = Len(resolved) + 1
               /\ Last(resolved').path = p
               /\ Markerless(fs[p])
               /\ Last(resolved').parent_id = NoneId ) =>
                 /\ Last(resolved').status = "ValueError"
                 /\ calls' = calls
                 /\ pages' = pages
                 /\ fs' = fs
                 /\ p \notin KeySet(page_metadata')
                 /\ pc' = "failed" /\ error' = "ValueError"
                 /\ stack' = <<>> /\ todo' = <<>>
                 /\ SyncCalls(run)' = {}
        /\ pc = "failed" => (run' = run + 1 /\ calls' = calls /\ fs' = fs)
      ]_vars

\* A directory run fetched the page of a marked document and was then aborted
\* by a markerless document of a subdirectory that inherited no parent identity.
C11_Witness ==
    /\ pc = "failed" /\ error = "ValueError"
    /\ resolved # <<>>
    /\ Last(resolved).status = "ValueError"
    /\ Last(resolved).parent_id = NoneId
    /\ Len(Last(resolved).path) = 3
    /\ Last(resolved).path \notin KeySet(page_metadata)
    /\ CallsFor(RA, "get_page", run) # {}
    /\ \A k \in 1..Len(calls) : calls[k].path # Last(resolved).path

-----------------------------------------------------------------------------
(* C12: front-matter that assigns no title. *)

\* The front-matter of text assigns no string title: it is unparseable, or no
\* mapping, or a mapping without a string title.
MalformedFrontmatter(text) ==
    LET fm == ExtractFrontmatter(ExtractQualifiedId(text).text)
    IN  fm.found /\ ~Truthy(SafeLoad(fm.frontmatter).title)

\* C12: resolving a markerless document whose front-matter is malformed
\* (unparseable, or parseable but not a mapping, or a mapping without a string
\* title), with a parent identity, never fails: it asks for a page titled with
\* the file's base name, as if front-matter were absent, and raises no error.
C12_MalformedFrontmatterTolerated ==
    \A k \in 1..Len(resolved) :
        LET p == resolved[k].path
        IN  ( /\ Markerless(original[p])
              /\ MalformedFrontmatter(original[p])
              /\ resolved[k].run = 1
              /\ resolved[k].parent_id # NoneId ) =>
                /\ resolved[k].status = "ok"
                /\ \E c \in CallsFor(p, "get_or_create_page", 1) :
                       calls[c].title = Stem(NameOf(p))

-----------------------------------------------------------------------------
(* C13: where the writer puts the marker lines. *)

\* The marker lines of new were put into old at the place where a text that
\* begins with a front-matter block has them immediately after the closing
\* delimiter line, and every other text at its very start.
MarkersPlaced(old, new) ==
    /\ MarkersInserted(old, new)
    /\ MarkerAt(new, "<!-- confluence-page-id:") =
           IF ExtractFrontmatter(old).found
           THEN ClosingDelimiter(old) + 4
           ELSE 0

\* C13: the writer places the identity marker lines immediately after the
\* closing front-matter delimiter when the text it is given begins with a
\* front-matter block, and at the very start of the file in every other case
\* (a text that starts with a line of dashes but has no closing delimiter
\* included); the rest of the text is unchanged.
C13_MarkersPlaced ==
    [][ \A p \in Files : fs'[p] # fs[p] => MarkersPlaced(fs[p], fs'[p]) ]_vars

-----------------------------------------------------------------------------
(* C14: a directory with nothing eligible in it. *)

\* C14: indexing a directory with no eligible files and no eligible
\* subdirectories resolves nothing, adds nothing to the Identity Map, issues no
\* remote call, writes no file and raises no error, whatever parent identity
\* (one or none) the directory was given: the call lists the directory and returns.
C14_EmptyDirectory ==
    [][ ( /\ pc = "index"
          /\ stack # <<>>
          /\ Listed(Last(stack).local_dir) = {} ) =>
            /\ resolved' = resolved
            /\ page_metadata' = page_metadata
            /\ calls' = calls
            /\ pages' = pages
            /\ fs' = fs
            /\ error' = None /\ pc' # "failed"
            /\ Last(stack).at = "scan" =>
                   stack' = [stack EXCEPT ![Len(stack)] =
                                Frame(Last(stack).local_dir, Last(stack).root_id,
                                      <<>>, <<>>, Last(stack).root_id, "files")]
            /\ Last(stack).at = "files" =>
                   stack' = SubSeq(stack, 1, Len(stack) - 1)
      ]_vars

\* The empty directory d was indexed with no parent identity, after a remote
\* call of the same run, and the call has returned to the indexing of the root.
C14_Witness ==
    /\ pc = "index" /\ error = None
    /\ D \in tree /\ Reachable(D) /\ Listed(D) = {}
    /\ Len(stack) = 1
    /\ Last(stack).at = "files" /\ Last(stack).files = <<>>
    /\ D \notin Range(Last(stack).directories)
    /\ Last(stack).parent_id = NoneId
    /\ \E k \in 1..Len(calls) : calls[k].run = run

-----------------------------------------------------------------------------
(* C15: the representative is resolved once, and first. *)

\* The places in the log of the resolutions of a directory's representative in run r.
RepResolutions(dir, r) ==
    {k \in 1..Len(resolved) :
        resolved[k].path = Representative(dir) /\ resolved[k].run = r}

\* C15: in every run and every directory with a representative, the
\* representative is resolved at most once, and exactly once when the
\* directory has been listed; it is resolved as the representative, not in the
\* plain-file batch, with the parent identity the directory inherited, and
\* before every other file of the directory and of its subdirectories.
C15_RepresentativeFirstAndOnce ==
    \A dir \in Directories, r \in 1..run :
        Representative(dir) # NoPath =>
            /\ Cardinality(RepResolutions(dir, r)) <= 1
            /\ \A i \in RepResolutions(dir, r) :
                   /\ resolved[i].representative
                   /\ resolved[i].parent_id = Received(dir)
            /\ \A k \in 1..Len(resolved) :
                   ( /\ resolved[k].run = r
                     /\ Under(resolved[k].path, dir)
                     /\ resolved[k].path # Representative(dir) ) =>
                       \E i \in RepResolutions(dir, r) : i < k
            /\ ( /\ r = run
                 /\ \/ \E n \in 1..Len(stack) :
                          stack[n].local_dir = dir /\ stack[n].at = "files"
                    \/ pc \in {"sync", "done"} /\ IsDir(targets[r]) ) =>
                   Cardinality(RepResolutions(dir, r)) = 1

\* A directory run has ended in which index.md of the root and index.md of d
\* were resolved as representatives, d's with the root's identity and not with
\* the identity it was given itself, ahead of README.md and of d/x.md.
C15_Witness ==
    /\ pc = "done" /\ IsDir(Last(targets))
    /\ Representative(Root) = RIndex /\ Representative(D) = DIndex
    /\ ReadQualifiedId(DIndex) \notin {NoneId, Received(D)}
    /\ Received(D) = ReadQualifiedId(RIndex)
    /\ \E i, j, k \in 1..Len(resolved) :
           /\ i < j /\ j < k
           /\ resolved[i].run = run /\ resolved[i].path = RIndex
           /\ resolved[j].path = DIndex /\ resolved[j].representative
           /\ resolved[j].parent_id = Received(D)
           /\ resolved[k].path = DX
    /\ \E k \in 1..Len(resolved) :
           resolved[k].path = RReadme /\ ~resolved[k].representative

-----------------------------------------------------------------------------
(* C16: the map covers the tree, and every entry is synchronized once. *)

\* The documents run r has resolved, and those whose content it has updated,
\* in the order of the calls.
ResolvedIn(r) ==
    LET mine == SelectSeq(resolved, LAMBDA e : e.run = r)
    IN  [k \in 1..Len(mine) |-> mine[k].path]
UpdatedIn(r) ==
    LET mine == SelectSeq(calls, LAMBDA c : c.run = r /\ c.op = "update_page")
    IN  [k \in 1..Len(mine) |-> mine[k].path]

\* Once a directory run has indexed the tree, the keys of the Identity Map are
\* the reachable files, each once, in the order they were resolved; the
\* documents updated so far and those still to come are the keys in that
\* order, so that at the end each has had exactly one update_page.
MapCoversTree ==
    (pc \in {"sync", "done"} /\ IsDir(Last(targets))) =>
        /\ KeySet(page_metadata) = ReachableFiles
        /\ Len(page_metadata) = Cardinality(ReachableFiles)
        /\ Keys(page_metadata) = ResolvedIn(run)
        /\ UpdatedIn(run) \o todo = Keys(page_metadata)
        /\ pc = "done" <=> todo = <<>>

\* C16: after a successful directory indexing the key set of the Identity Map
\* is exactly the set of non-excluded files reachable through non-excluded
\* directories, and in a failure-free run the synchronization phase terminates
\* having issued exactly one update_page for each of them, in map insertion
\* (traversal) order.
C16_EveryEntrySynchronized ==
    /\ []MapCoversTree
    /\ (pc = "sync" /\ IsDir(Last(targets)))
           ~> (pc = "done" /\ UpdatedIn(run) = Keys(page_metadata))

\* A directory run has ended: four files of three directories were indexed and
\* updated, in the order of the traversal, and an excluded file was not.
C16_Witness ==
    /\ pc = "done" /\ IsDir(Last(targets))
    /\ Len(page_metadata) >= 4
    /\ UpdatedIn(run) = Keys(page_metadata)
    /\ {DX, EX} \subseteq KeySet(page_metadata)
    /\ \E p \in Files : p \in tree /\ ~Reachable(p)

-----------------------------------------------------------------------------
(* C17: what the writer writes is what a reader reads. *)

\* The places in the log of the get_or_create_page calls that returned a page.
Assignments ==
    {k \in 1..Len(calls) :
        calls[k].op = "get_or_create_page" /\ calls[k].result # "RemoteError"}

\* The qualified identity of the page a get_or_create_page call returned: its
\* id, and its space key when it has one.
Assigned(k) ==
    LET page == CHOOSE page \in pages : page.id = calls[k].result
    IN  QualifiedID(page.id,
                    IF Truthy(page.space_key) THEN page.space_key ELSE None)

\* C17: the identity written into a file for the page the remote assigned
\* (the page id always, the space key when the page has one) is what every
\* later read of the file yields: the file reads as that identity from then
\* on, the next run fetches the page by it, and when the file is its
\* directory's representative every other file of the directory is resolved
\* after it, with that identity as its parent identity.
C17_WrittenIdentityReadBack ==
    \A k \in Assignments :
        LET p == calls[k].path
        IN  /\ ReadQualifiedId(p) = Assigned(k)
            /\ Truthy(Assigned(k).page_id)
            /\ \A g \in 1..Len(calls) :
                   (calls[g].path = p /\ calls[g].op = "get_page") =>
                       /\ g > k
                       /\ calls[g].run > calls[k].run
                       /\ calls[g].page_id = Assigned(k).page_id
                       /\ calls[g].space_key = Assigned(k).space_key
            /\ \A c \in 1..Len(resolved) :
                   ( /\ p = Representative(ParentOf(p))
                     /\ ParentOf(resolved[c].path) = ParentOf(p)
                     /\ resolved[c].path # p ) =>
                       /\ resolved[c].parent_id = Assigned(k)
                       /\ \E i \in 1..(c - 1) :
                              /\ resolved[i].path = p
                              /\ resolved[i].run = calls[k].run
                              /\ resolved[i].page_id = Assigned(k).page_id

\* The first run created a page for index.md of the root, in a space, and
\* resolved a.md under the identity read back from it; the second run fetched
\* that page by the same identity.
C17_Witness ==
    \E k \in Assignments :
        /\ calls[k].path = RIndex /\ calls[k].created /\ calls[k].run = 1
        /\ Truthy(Assigned(k).space_key)
        /\ \E c \in 1..Len(resolved) :
               /\ resolved[c].path = RA /\ resolved[c].run = 1
               /\ resolved[c].parent_id = Assigned(k)
        /\ \E g \in 1..Len(calls) :
               /\ calls[g].op = "get_page" /\ calls[g].path = RIndex
               /\ calls[g].run = 2
               /\ calls[g].page_id = Assigned(k).page_id

-----------------------------------------------------------------------------
(* C18: a run that failed is run again. *)

\* C18: whatever remote call fails in a run (a fetch, a creation, an upload or
\* an update, refused or lost after the wiki acted, so also between the remote
\* creation of a page and the local write of its marker), running the
\* synchronization again creates no duplicate: over all runs at most one remote
\* page is created per local document, and the wiki never holds two pages of
\* one title in one space.
C18_NoDuplicateAfterFailure ==
    /\ \A p \in Files : Cardinality(Creations(p)) <= 1
    /\ \A one, other \in pages :
           (one.title = other.title /\ SpaceOf(one) = SpaceOf(other)) =>
               one = other

\* The first run was aborted when the reply to a creation was lost: the page
\* was created, the marker was not written. The second run asked for the page
\* again, was given the page that the first had created, wrote the marker and
\* went on to the end.
C18_Witness ==
    /\ run = 2 /\ pc = "done" /\ DirectoryRuns
    /\ \E i, j \in 1..Len(calls) :
           /\ calls[i].run = 1 /\ calls[j].run = 2
           /\ calls[i].path = calls[j].path
           /\ calls[i].op = "get_or_create_page" /\ calls[i].created
           /\ calls[i].result = "RemoteError"
           /\ calls[j].op = "get_or_create_page" /\ ~calls[j].created
           /\ calls[j].result = ReadQualifiedId(calls[j].path).page_id
           /\ \E page \in pages \ InitialPages : page.id = calls[j].result

-----------------------------------------------------------------------------
(* C19: one remote page per local file. *)

\* C19: once a directory run has indexed the tree, distinct local files in the
\* Identity Map are mapped to distinct remote page ids (two markerless files
\* that derive the same title under the same parent identity included), so no
\* two local documents update the same remote page.
C19_DistinctPages ==
    (pc \in {"sync", "done"} /\ IsDir(Last(targets))) =>
        \A i, j \in 1..Len(page_metadata) :
            i # j => page_metadata[i][2].page_id # page_metadata[j][2].page_id


====
